---- MODULE Spec2Model ----
(***************************************************************************)
(* Model of internal/helpers.go of pdscan: the aggregation of a match's    *)
(* matched data (unique, cap, whitespace collapsing, sort), the rendering  *)
(* of a match list (printMatchList, printMatch, pluralize) and the         *)
(* low-confidence summary (showLowConfidenceMatchHelp).                    *)
(*                                                                         *)
(* Go strings are TLA+ strings; a []string is a sequence of strings.       *)
(* Standard output is the sequence `out` of the lines written so far.      *)
(***************************************************************************)
EXTENDS Integers, Sequences, FiniteSets, TLC

VARIABLES
    matchList,  \* the []ruleMatch handed to printMatchList and showLowConfidenceMatchHelp
    showData,   \* printMatchList's showData argument
    showAll,    \* printMatchList's showAll argument
    rowStr,     \* printMatchList's rowStr argument
    noColor,    \* color.NoColor of fatih/color: TRUE when colors are disabled
    reports,    \* the matchInfo values handed to printMatch so far, in call order
    out,        \* the lines written to standard output so far
    pc          \* "start", "printed" (printMatchList returned), "done"

vars == <<matchList, showData, showAll, rowStr, noColor, reports, out, pc>>

----------------------------------------------------------------------------
(* Bounds of the model *)

MaxMatches == 2
MaxLineCount == 2
MaxData == 2
MaxExtra == 2

(* helpers.go:159, the cap on the number of values shown for one match *)
MaxValues == 50

----------------------------------------------------------------------------
(* Strings *)

\* the characters the regexp class \s matches (RE2: [\t\n\f\r ])
Whitespace == {" ", "\t", "\n", "\f", "\r"}

\* byte values of the characters that occur in matched data
CharCode ==
    ("\t" :> 9) @@ ("\n" :> 10) @@ ("\f" :> 12) @@ ("\r" :> 13) @@ (" " :> 32) @@
    ("0" :> 48) @@ ("1" :> 49) @@ ("2" :> 50) @@ ("3" :> 51) @@ ("4" :> 52) @@
    ("5" :> 53) @@ ("6" :> 54) @@ ("7" :> 55) @@ ("8" :> 56) @@ ("9" :> 57) @@
    ("a" :> 97) @@ ("b" :> 98)

CharAt(s, i) == SubSeq(s, i, i)

\* Go's < on strings: bytewise lexicographic order
RECURSIVE LessFrom(_, _, _)
LessFrom(a, b, i) ==
    IF i > Len(b) THEN FALSE
    ELSE IF i > Len(a) THEN TRUE
    ELSE IF CharAt(a, i) = CharAt(b, i) THEN LessFrom(a, b, i + 1)
    ELSE CharCode[CharAt(a, i)] < CharCode[CharAt(b, i)]

StringLess(a, b) == LessFrom(a, b, 1)

\* strings.HasSuffix
HasSuffix(s, suffix) ==
    /\ Len(s) >= Len(suffix)
    /\ SubSeq(s, Len(s) - Len(suffix) + 1, Len(s)) = suffix

Digit(d) == CharAt("0123456789", d + 1)

\* the verb %d of fmt on a non-negative int
RECURSIVE FormatNat(_)
FormatNat(n) == IF n < 10 THEN Digit(n) ELSE FormatNat(n \div 10) \o Digit(n % 10)

\* the verb %d of fmt
FormatInt(n) == IF n < 0 THEN "-" \o FormatNat(-n) ELSE FormatNat(n)

\* strings.Join of elems[lo..hi], by halves
RECURSIVE JoinRange(_, _, _, _)
JoinRange(elems, lo, hi, sep) ==
    IF lo > hi THEN ""
    ELSE IF lo = hi THEN elems[lo]
    ELSE LET mid == (lo + hi) \div 2
         IN  JoinRange(elems, lo, mid, sep) \o sep \o JoinRange(elems, mid + 1, hi, sep)

\* strings.Join
Join(elems, sep) == JoinRange(elems, 1, Len(elems), sep)

\* space.ReplaceAllString(s, " ") with space = \s+ : every maximal run of
\* whitespace becomes one space
RECURSIVE ReplaceFrom(_, _, _)
ReplaceFrom(s, i, inRun) ==
    IF i > Len(s) THEN ""
    ELSE IF CharAt(s, i) \in Whitespace
         THEN (IF inRun THEN "" ELSE " ") \o ReplaceFrom(s, i + 1, TRUE)
         ELSE CharAt(s, i) \o ReplaceFrom(s, i + 1, FALSE)

spaceReplaceAll(s) == ReplaceFrom(s, 1, FALSE)

----------------------------------------------------------------------------
(* Aggregation of the matched data of one match *)

\* unique: an entry is appended to the list iff no earlier entry of arr is
\* equal to it (keys holds the earlier entries), so the list is the first
\* occurrence of every string, in order of first occurrence
unique(arr) ==
    LET notInKeys(i) == \A j \in 1..(i - 1) : arr[j] # arr[i]
        appended == SelectSeq([i \in 1..Len(arr) |-> i], notInKeys)
    IN  [k \in 1..Len(appended) |-> arr[appended[k]]]

\* if len(v) > 50 { v = v[0:50] }
capValues_tail(v) ==
    IF Len(v) > MaxValues THEN SubSeq(v, Len(v) - MaxValues + 1, Len(v)) ELSE v

capValues(v) == IF Len(v) > MaxValues THEN SubSeq(v, 1, MaxValues) ELSE v

\* for i, v2 := range v { v[i] = space.ReplaceAllString(v2, " ") }
replaceEach(v) == [i \in 1..Len(v) |-> spaceReplaceAll(v[i])]

\* sort.Strings: the strings of v in ascending Go string order; the entry
\* v[i] goes to the place after the smaller strings and the equal strings
\* before it
sortStrings(v) ==
    LET place(i) == Cardinality({j \in 1..Len(v) : StringLess(v[j], v[i])})
                    + Cardinality({j \in 1..(i - 1) : v[j] = v[i]}) + 1
    IN  [k \in 1..Len(v) |-> v[CHOOSE i \in 1..Len(v) : place(i) = k]]

\* the list v that printMatchList builds from match.MatchedData when showData
aggregate(matchedData) ==
    LET v == unique(matchedData)
    IN  IF Len(v) > 0 THEN sortStrings(replaceEach(capValues(v))) ELSE v

\* a []string variable: nil, or a slice with elements
NilSlice == [nil |-> TRUE, elems |-> <<>>]

\* var values []string; if showData { ...; values = v }
matchValues_nilWhenEmpty(match, data) ==
    IF data /\ Len(match.MatchedData) > 0
    THEN [nil |-> FALSE, elems |-> aggregate(match.MatchedData)]
    ELSE NilSlice

matchValues(match, data) ==
    IF data THEN [nil |-> FALSE, elems |-> aggregate(match.MatchedData)]
    ELSE NilSlice

----------------------------------------------------------------------------
(* Rendering *)

pluralize_moreThanOne(count, singular) ==
    FormatInt(count) \o " " \o
        (IF count > 1
         THEN IF singular = "index" THEN "indices"
              ELSE IF HasSuffix(singular, "ch") THEN singular \o "es"
              ELSE singular \o "s"
         ELSE singular)

pluralize(count, singular) ==
    FormatInt(count) \o " " \o
        (IF count # 1
         THEN IF singular = "index" THEN "indices"
              ELSE IF HasSuffix(singular, "ch") THEN singular \o "es"
              ELSE singular \o "s"
         ELSE singular)

\* the description printMatchList gives a match
description_dataCount(match, row) ==
    IF match.MatchType = "name"
    THEN "possible " \o match.DisplayName \o " (name match)"
    ELSE LET str == pluralize(Len(match.MatchedData), row) \o
                    (IF match.Confidence = "low" THEN ", low confidence" ELSE "")
         IN  IF row = "key"
             THEN "found " \o match.DisplayName
             ELSE "found " \o match.DisplayName \o " (" \o str \o ")"

description_keyCount(match, row) ==
    IF match.MatchType = "name"
    THEN "possible " \o match.DisplayName \o " (name match)"
    ELSE LET str == pluralize(match.LineCount, row) \o
                    (IF match.Confidence = "low" THEN ", low confidence" ELSE "")
         IN  "found " \o match.DisplayName \o " (" \o str \o ")"

description(match, row) ==
    IF match.MatchType = "name"
    THEN "possible " \o match.DisplayName \o " (name match)"
    ELSE LET str == pluralize(match.LineCount, row) \o
                    (IF match.Confidence = "low" THEN ", low confidence" ELSE "")
         IN  IF row = "key"
             THEN "found " \o match.DisplayName
             ELSE "found " \o match.DisplayName \o " (" \o str \o ")"

\* if showAll || match.Confidence != "low"
rendered_all(match, all) == TRUE

rendered(match, all) == all \/ match.Confidence # "low"

\* matchInfo{match, description, values}
matchInfo(match, data, row) ==
    [ruleMatch |-> match,
     Description |-> description(match, row),
     Values |-> matchValues(match, data)]

\* color.New(color.FgYellow).SprintFunc(): the text between the escape
\* sequences of yellow and of reset (written <ESC>[33m and <ESC>[0m), or the
\* text alone when colors are disabled
yellow(s, disabled) == IF disabled THEN s ELSE "<ESC>[33m" \o s \o "<ESC>[0m"

\* the lines printMatch writes
printMatch(info, disabled) ==
    <<yellow(info.ruleMatch.Identifier \o ":", disabled) \o " " \o info.Description>> \o
    (IF ~info.Values.nil
     THEN (IF Len(info.Values.elems) > 0
           THEN <<"    " \o Join(info.Values.elems, ", ")>>
           ELSE <<>>) \o <<"">>
     ELSE <<>>)

\* the matchInfo values printMatchList hands to printMatch, in call order
RECURSIVE matchInfos(_, _, _, _)
matchInfos(list, data, all, row) ==
    IF Len(list) = 0 THEN <<>>
    ELSE (IF rendered(Head(list), all)
          THEN <<matchInfo(Head(list), data, row)>>
          ELSE <<>>) \o matchInfos(Tail(list), data, all, row)

RECURSIVE printAll(_, _)
printAll(infos, disabled) ==
    IF Len(infos) = 0 THEN <<>>
    ELSE printMatch(Head(infos), disabled) \o printAll(Tail(infos), disabled)

\* a printMatchList that stores the values it shows back into the match
printMatchList_storeBack ==
    /\ pc = "start"
    /\ reports' = matchInfos(matchList, showData, showAll, rowStr)
    /\ out' = out \o printAll(reports', noColor)
    /\ matchList' = [i \in 1..Len(matchList) |->
                        IF showData /\ rendered(matchList[i], showAll)
                        THEN [matchList[i] EXCEPT !.MatchedData = aggregate(@)]
                        ELSE matchList[i]]
    /\ pc' = "printed"
    /\ UNCHANGED <<showData, showAll, rowStr, noColor>>

printMatchList ==
    /\ pc = "start"
    /\ reports' = matchInfos(matchList, showData, showAll, rowStr)
    /\ out' = out \o printAll(reports', noColor)
    /\ pc' = "printed"
    /\ UNCHANGED <<matchList, showData, showAll, rowStr, noColor>>

\* the matches showLowConfidenceMatchHelp collects
lowConfidenceMatches_notHigh(list) ==
    LET notHigh(m) == m.Confidence # "high" IN SelectSeq(list, notHigh)

lowConfidenceMatches(list) ==
    LET low(m) == m.Confidence = "low" IN SelectSeq(list, low)

showLowConfidenceMatchHelp ==
    /\ pc = "printed"
    /\ out' = IF Len(lowConfidenceMatches(matchList)) > 0
              THEN Append(out, "Also found " \o
                       pluralize(Len(lowConfidenceMatches(matchList)), "low confidence match") \o
                       ". Use --show-all to view them")
              ELSE out
    /\ pc' = "done"
    /\ UNCHANGED <<matchList, showData, showAll, rowStr, noColor, reports>>

----------------------------------------------------------------------------
(* Inputs *)

\* one name rule and one regex rule of the catalog
Rules ==
    {[Name |-> "surname", DisplayName |-> "last names"],
     [Name |-> "email", DisplayName |-> "emails"]}

Confidences == {"high", "medium", "low"}

MatchTypes == {"name", "value"}

RowStrs == {"row", "key", "index", "branch"}

SeqsUpTo(S, n) == UNION {[1..k -> S] : k \in 0..n}

\* matched strings: equal after whitespace collapsing or not, sorted or not
Strs == {"a b", "a \tb", "b"}

SmallData == SeqsUpTo(Strs, MaxData)

\* single matches with every combination of the fields
RichMatches ==
    {[RuleName |-> r.Name, DisplayName |-> r.DisplayName, Confidence |-> c,
      Identifier |-> "users.c1", MatchedData |-> d, MatchType |-> t, LineCount |-> n] :
        r \in Rules, c \in {"high", "low"}, d \in SmallData,
        t \in MatchTypes, n \in 0..MaxLineCount}

\* the matches of longer lists: a name match of the name rule and a value
\* match of the regex rule, of every confidence
ListMatches ==
    {[RuleName |-> "surname", DisplayName |-> "last names", Confidence |-> c,
      Identifier |-> "users.last_name", MatchedData |-> <<>>,
      MatchType |-> "name", LineCount |-> 1] : c \in Confidences}
    \cup
    {[RuleName |-> "email", DisplayName |-> "emails", Confidence |-> c,
      Identifier |-> "users.email", MatchedData |-> <<"b", "a \tb", "b", "a b">>,
      MatchType |-> "value", LineCount |-> 2] : c \in Confidences}

\* long matched data: around MaxValues distinct two-digit strings, some with
\* whitespace inside, ascending, scrambled or descending, with or without a
\* repeated string
LongValue(k) ==
    Digit(k \div 10) \o (IF k % 3 = 0 THEN " \t" ELSE "") \o Digit(k % 10)

LongBase(n, stride) == [i \in 1..n |-> LongValue((i * stride) % 97)]

WithRepeat(d, p) == SubSeq(d, 1, p) \o <<d[1]>> \o SubSeq(d, p + 1, Len(d))

LongData ==
    LET bases == {LongBase(n, s) : n \in (MaxValues - 1)..(MaxValues + MaxExtra), s \in {1, 7, 96}}
    IN  bases \cup {WithRepeat(d, p) : d \in bases, p \in {1, 25}}
              \cup {WithRepeat(d, Len(d)) : d \in bases}

LongMatches ==
    {[RuleName |-> "email", DisplayName |-> "emails", Confidence |-> "high",
      Identifier |-> "users.email", MatchedData |-> d,
      MatchType |-> "value", LineCount |-> Len(d)] : d \in LongData}

MatchLists ==
    SeqsUpTo(ListMatches, MaxMatches) \cup {<<m>> : m \in RichMatches}

Init ==
    /\ pc = "start"
    /\ out = <<>>
    /\ reports = <<>>
    /\ \/ /\ matchList \in MatchLists
          /\ showData \in BOOLEAN
          /\ showAll \in BOOLEAN
          /\ rowStr \in RowStrs
          /\ noColor \in BOOLEAN
       \/ /\ matchList \in {<<m>> : m \in LongMatches}
          /\ showData = TRUE
          /\ showAll \in BOOLEAN
          /\ rowStr = "row"
          /\ noColor = TRUE

Next ==
    \/ printMatchList
    \/ showLowConfidenceMatchHelp

Spec == Init /\ [][Next]_vars

----------------------------------------------------------------------------
(* Properties *)

Last(s) == s[Len(s)]

HasPrefix(s, prefix) ==
    /\ Len(s) >= Len(prefix)
    /\ SubSeq(s, 1, Len(prefix)) = prefix

\* the description line of a rendered match
DescriptionLine(info) ==
    yellow(info.ruleMatch.Identifier \o ":", noColor) \o " " \o info.Description

\* the values line of a rendered match
ValuesLine(info) == "    " \o Join(info.Values.elems, ", ")

RECURSIVE Flatten(_)
Flatten(chunks) ==
    IF Len(chunks) = 0 THEN <<>> ELSE Head(chunks) \o Flatten(Tail(chunks))

\* the matches of the list that were not rendered
Suppressed == Len(matchList) - Len(reports)

\* C1 as stated: after the description line of every rendered match come the
\* values line and a blank line if showData holds and the match has at least
\* one matched value, and nothing at all otherwise.
C1_NothingWithoutValues ==
    pc = "printed" =>
        out = Flatten([i \in 1..Len(reports) |->
                  <<DescriptionLine(reports[i])>> \o
                  (IF showData /\ Len(reports[i].ruleMatch.MatchedData) > 0
                   THEN <<ValuesLine(reports[i]), "">>
                   ELSE <<>>)])

\* C1 amended: after the description line of every rendered match comes the
\* values line iff showData holds and the match has at least one matched
\* value, and then a blank line iff showData holds, with or without values;
\* without showData nothing follows the description line.
C1_BlankLineWithShowData ==
    pc = "printed" =>
        out = Flatten([i \in 1..Len(reports) |->
                  <<DescriptionLine(reports[i])>> \o
                  (IF showData /\ Len(reports[i].ruleMatch.MatchedData) > 0
                   THEN <<ValuesLine(reports[i])>>
                   ELSE <<>>) \o
                  (IF showData THEN <<"">> ELSE <<>>)])

\* a match without matched data was rendered with showData: a description
\* line and a blank line
C1_Witness ==
    /\ pc = "printed"
    /\ showData
    /\ Len(reports) = 1
    /\ Len(reports[1].ruleMatch.MatchedData) = 0
    /\ out = <<DescriptionLine(reports[1]), "">>

\* C2: aggregating the values list of a rendered match again yields the
\* same list.
C2_Idempotent ==
    pc = "printed" =>
        \A i \in 1..Len(reports) :
            ~reports[i].Values.nil =>
                aggregate(reports[i].Values.elems) = reports[i].Values.elems

\* C3: no string occurs twice in the values list of a rendered match, and
\* every string of it is the whitespace-collapsed form of a matched string.
C3_Deduplicated ==
    pc = "printed" =>
        \A i \in 1..Len(reports) :
            LET elems == reports[i].Values.elems
                data == reports[i].ruleMatch.MatchedData
            IN  ~reports[i].Values.nil =>
                    /\ \A j, k \in 1..Len(elems) : j # k => elems[j] # elems[k]
                    /\ \A j \in 1..Len(elems) :
                           \E k \in 1..Len(data) : elems[j] = spaceReplaceAll(data[k])

\* the count of the summary line
LowConfidenceCount(n) ==
    IF n = 1 THEN "1 low confidence match"
    ELSE FormatInt(n) \o " low confidence matches"

SummaryLine(n) == "Also found " \o LowConfidenceCount(n) \o ". Use --show-all to view them"

\* C4 as stated: whatever showAll, the summary line is printed iff a match
\* was suppressed, and counts the suppressed matches.
C4_CountsSuppressed ==
    pc = "done" =>
        out = printAll(reports, noColor) \o
              (IF Suppressed > 0 THEN <<SummaryLine(Suppressed)>> ELSE <<>>)

\* C4 amended: the summary line is printed iff a match of the list has
\* confidence "low", rendered or not, and counts the matches of confidence
\* "low"; these are the suppressed matches when showAll is false.
C4_CountsLowConfidence ==
    pc = "done" =>
        LET low == Cardinality({i \in 1..Len(matchList) : matchList[i].Confidence = "low"})
        IN  /\ out = printAll(reports, noColor) \o
                     (IF low > 0 THEN <<SummaryLine(low)>> ELSE <<>>)
            /\ ~showAll => low = Suppressed

\* two matches were suppressed and the summary line counts them
C4_Witness ==
    /\ pc = "done"
    /\ Suppressed = 2
    /\ Last(out) = "Also found 2 low confidence matches. Use --show-all to view them"

\* the lines of the output that are neither blank nor indented
DescriptionLines ==
    LET isDescription(line) == line # "" /\ ~HasPrefix(line, "    ")
    IN  SelectSeq(out, isDescription)

\* C5: printMatchList prints one description line for each match with
\* showAll or a confidence other than "low", none for the others, in the
\* order of the list.
C5_Visibility ==
    pc = "printed" =>
        LET isVisible(m) == showAll \/ m.Confidence # "low"
            visible == SelectSeq(matchList, isVisible)
        IN  /\ Len(DescriptionLines) = Len(visible)
            /\ \A k \in 1..Len(visible) :
                   DescriptionLines[k] =
                       yellow(visible[k].Identifier \o ":", noColor) \o " " \o
                       description(visible[k], rowStr)

\* of two matches the first, of low confidence, was left out
C5_Witness ==
    /\ pc = "printed"
    /\ ~showAll
    /\ Len(matchList) = 2
    /\ matchList[1].Confidence = "low"
    /\ matchList[2].Confidence = "high"
    /\ Len(DescriptionLines) = 1

\* the number of times s occurs in the sequence v
Occurrences(v, s) == Cardinality({k \in 1..Len(v) : v[k] = s})

\* C6: with more than 50 distinct matched strings the values list has 50
\* entries, the collapsed forms of the first 50 distinct strings in order of
\* first occurrence; with 50 or fewer none is dropped.
C6_Capping ==
    pc = "printed" =>
        \A i \in 1..Len(reports) :
            LET elems == reports[i].Values.elems
                data == reports[i].ruleMatch.MatchedData
                first == {j \in 1..Len(data) : \A k \in 1..(j - 1) : data[k] # data[j]}
                kept == {j \in first : Cardinality({k \in first : k < j}) < 50}
                collapsed == {spaceReplaceAll(data[j]) : j \in kept}
            IN  ~reports[i].Values.nil =>
                    /\ Len(elems) = IF Cardinality(first) > 50 THEN 50 ELSE Cardinality(first)
                    /\ \A s \in collapsed \cup {elems[k] : k \in 1..Len(elems)} :
                           Occurrences(elems, s) =
                               Cardinality({j \in kept : spaceReplaceAll(data[j]) = s})

\* more than 50 distinct strings, one of them repeated among the first 50
C6_Witness ==
    /\ pc = "printed"
    /\ Len(reports) = 1
    /\ LET data == reports[1].ruleMatch.MatchedData
       IN  /\ Cardinality({data[j] : j \in 1..Len(data)}) > 50
           /\ data[1] = data[26]
           /\ Len(reports[1].Values.elems) = 50

\* the noun of pluralize's result as C7 states it
PluralWord(count, noun) ==
    IF count = 1 THEN noun
    ELSE IF noun = "index" THEN "indices"
    ELSE IF Len(noun) >= 2 /\ SubSeq(noun, Len(noun) - 1, Len(noun)) = "ch" THEN noun \o "es"
    ELSE noun \o "s"

\* C7: pluralize(count, noun) is "<count> <word>", the word being the noun
\* for count 1 and otherwise "indices" for "index", the noun and "es" for a
\* noun ending in "ch", the noun and "s" for every other noun.
C7_Pluralize ==
    /\ \A i \in 1..Len(matchList) :
           /\ pluralize(matchList[i].LineCount, rowStr) =
                  FormatInt(matchList[i].LineCount) \o " " \o
                  PluralWord(matchList[i].LineCount, rowStr)
           /\ pluralize(matchList[i].LineCount, matchList[i].RuleName) =
                  FormatInt(matchList[i].LineCount) \o " " \o
                  PluralWord(matchList[i].LineCount, matchList[i].RuleName)
    /\ pluralize(Len(matchList), "low confidence match") =
           FormatInt(Len(matchList)) \o " " \o
           PluralWord(Len(matchList), "low confidence match")
    /\ pc = "printed" /\ rowStr = "branch" =>
           \A i \in 1..Len(reports) :
               reports[i].ruleMatch.MatchType = "value" /\ reports[i].ruleMatch.Confidence = "high" =>
                   reports[i].Description =
                       "found " \o reports[i].ruleMatch.DisplayName \o " (" \o
                       (CASE reports[i].ruleMatch.LineCount = 0 -> "0 branches"
                          [] reports[i].ruleMatch.LineCount = 1 -> "1 branch"
                          [] reports[i].ruleMatch.LineCount = 2 -> "2 branches"
                          [] OTHER -> FormatInt(reports[i].ruleMatch.LineCount) \o " branches")
                       \o ")"

\* a match over no index was rendered as "0 indices"
C7_Witness ==
    /\ pc = "printed"
    /\ rowStr = "index"
    /\ Len(reports) = 1
    /\ reports[1].ruleMatch.LineCount = 0
    /\ reports[1].Description = "found emails (0 indices)"

\* C8: for a row noun other than "key" the description of a rendered match is
\* "possible <displayName> (name match)" for a name match, and otherwise
\* "found <displayName> (<pluralize(lineCount, rowNoun)>)", with
\* ", low confidence" after the count for a match of low confidence.
C8_Description ==
    pc = "printed" /\ rowStr # "key" =>
        \A i \in 1..Len(reports) :
            LET m == reports[i].ruleMatch
            IN  reports[i].Description =
                    IF m.MatchType = "name"
                    THEN "possible " \o m.DisplayName \o " (name match)"
                    ELSE IF m.Confidence = "low"
                    THEN "found " \o m.DisplayName \o " (" \o
                         pluralize(m.LineCount, rowStr) \o ", low confidence)"
                    ELSE "found " \o m.DisplayName \o " (" \o
                         pluralize(m.LineCount, rowStr) \o ")"

\* a value match of low confidence over two rows, with one matched string
C8_Witness ==
    /\ pc = "printed"
    /\ rowStr = "row"
    /\ Len(reports) = 1
    /\ Len(reports[1].ruleMatch.MatchedData) = 1
    /\ reports[1].Description = "found emails (2 rows, low confidence)"

\* C9: for the row noun "key" the description of a rendered value match is
\* "found <displayName>" alone, also for a match of low confidence; a name
\* match still reads "possible <displayName> (name match)".
C9_Key ==
    pc = "printed" /\ rowStr = "key" =>
        \A i \in 1..Len(reports) :
            LET m == reports[i].ruleMatch
            IN  reports[i].Description =
                    IF m.MatchType = "name"
                    THEN "possible " \o m.DisplayName \o " (name match)"
                    ELSE "found " \o m.DisplayName

\* a value match of low confidence rendered under showAll for keys
C9_Witness ==
    /\ pc = "printed"
    /\ rowStr = "key"
    /\ showAll
    /\ Len(reports) = 1
    /\ reports[1].ruleMatch.MatchType = "value"
    /\ reports[1].ruleMatch.Confidence = "low"
    /\ reports[1].Description = "found emails"

\* C10: no step changes the match list: the matches, their order, their
\* matched data and their other fields stay as they were.
C10_InputUnchanged == [][matchList' = matchList]_vars

\* both functions have run on a match whose shown values differ from its
\* matched data
C10_Witness ==
    /\ pc = "done"
    /\ showData
    /\ \E i \in 1..Len(reports) :
           /\ reports[i].Values.elems # reports[i].ruleMatch.MatchedData
           /\ reports[i].ruleMatch = matchList[i]

====
